---- MODULE Spec2Model ----
(***************************************************************************)
(* The policy API of the KES server (internal/api/policy.go): the six      *)
(* handlers assign, describe, read, write, delete and list, each run by    *)
(* one goroutine per request, over a vault of enclaves.  A handler is a    *)
(* sequence of steps (pc); every call a handler makes on the vault, the    *)
(* enclave, the request or the response writer is one step.                *)
(***************************************************************************)
EXTENDS Integers, Sequences, FiniteSets, TLC

\* ------------------------------------------------------------- bounds
\* goroutines serving requests concurrently
NumHandlers == 2
\* requests served in one behaviour, over all goroutines
MaxRequests == 2
\* requests served in one behaviour by a single goroutine, one after another
MaxSeqRequests == 3

Handlers == 1..NumHandlers

\* ---------------------------------------------------------- constants
StatusOK == 200
StatusBadRequest == 400
StatusForbidden == 403

Ops == {"assign", "describe", "read", "write", "delete", "list"}

\* The enclaves of the vault, and the enclave name of a request that
\* addresses none of them.
Enclaves == {"e1", "e2"}
MissingEnclave == "e0"

\* Names are strings of characters; a string is modelled as the sequence
\* of its characters, so that path.Match and the name check work on them.
NameChars == {"a", "b", "1"}
A1 == <<"a", "1">>
B1 == <<"b", "1">>
PolicyNames == {A1, B1}
BadName == <<"a", "/">>
MatchAll == <<"*">>
Patterns == {MatchAll, <<"a", "*">>}
BadPattern == <<"[">>

\* Identities (kes.Identity is a string type).
IdentityUnknown == <<>>
Admin == <<"a">>
Alice == <<"b">>
BadIdentity == <<"/">>
Identities == {Admin, Alice}

\* ------------------------------------------------------------- errors
\* kes.NewError(code, message); Nil is Go's nil error.
NewError(code, msg) == [code |-> code, msg |-> msg]
Nil == NewError(0, "")
ErrName == NewError(StatusBadRequest, "invalid argument: name is invalid")
ErrEnclaveNotFound == NewError(404, "enclave does not exist")
ErrNotAllowed == NewError(StatusForbidden, "not authorized: insufficient permissions")
\* The json decoder's error is returned as it is: it carries no status.
ErrDecode == [code |-> 0, msg |-> "invalid json"]
ErrIdentityUnknown == NewError(StatusBadRequest, "identity is unknown")
ErrSelfAssign == NewError(StatusForbidden, "identity cannot assign policy to itself")
ErrAdminAssign == NewError(StatusBadRequest, "cannot assign policy to system admin")
ErrPolicyNotFound == NewError(404, "policy does not exist")
ErrStore == NewError(500, "store failure")
ErrWrite == NewError(500, "write failure")

\* -------------------------------------------------- pure helper functions
RECURSIVE Match(_, _)
\* path.Match(pattern, name) for patterns over literals, '?' and '*'.
Match(pattern, name) ==
    IF pattern = <<>> THEN name = <<>>
    ELSE IF Head(pattern) = "*"
         THEN \/ Match(Tail(pattern), name)
              \/ name # <<>> /\ Head(name) # "/" /\ Match(pattern, Tail(name))
    ELSE IF name = <<>> THEN FALSE
    ELSE IF Head(pattern) = "?" THEN Head(name) # "/" /\ Match(Tail(pattern), Tail(name))
    ELSE Head(pattern) = Head(name) /\ Match(Tail(pattern), Tail(name))

\* verifyName(name): nil when every character is a name character.
verifyName(name) ==
    IF \A i \in 1..Len(name) : name[i] \in NameChars THEN Nil ELSE ErrName

\* nameFromRequest(r, APIPath): the path's trailing segment, verified.
nameFromRequest(name) ==
    IF name # <<>> /\ verifyName(name) = Nil THEN Nil ELSE ErrName

\* patternFromRequest(r, APIPath): the trailing segment as a glob pattern.
patternFromRequest(pattern) ==
    IF /\ pattern # <<>>
       /\ \A i \in 1..Len(pattern) : pattern[i] \in NameChars \cup {"*", "?"}
    THEN Nil ELSE ErrName

\* Identity.IsUnknown()
IsUnknown(id) == id = IdentityUnknown

\* ---------------------------------------------------------- lock model
\* A sync.RWMutex: the goroutines holding it for reading, and the one
\* holding it for writing (0: none).
FreeLock == [readers |-> {}, writer |-> 0]
CanRLock(l) == l.writer = 0
CanLock(l) == l.writer = 0 /\ l.readers = {}
RLock(l, h) == [l EXCEPT !.readers = @ \cup {h}]
Lock(l, h) == [l EXCEPT !.writer = h]
Unlock(l, h) ==
    [readers |-> l.readers \ {h}, writer |-> IF l.writer = h THEN 0 ELSE l.writer]
Holds(l, h) == h \in l.readers \/ l.writer = h

\* Variant of EnclaveLockMode: every handler takes enclave.RLocker().
EnclaveLockModeRead(op) == "read"

\* The enclave lock a handler takes: enclave.Locker() in assign, write and
\* delete, enclave.RLocker() in describe, read and list.
EnclaveLockMode(op) ==
    IF op \in {"assign", "write", "delete"} THEN "write" ELSE "read"

\* ------------------------------------------------------------ state
VARIABLES
    pc,          \* pc[h]: the step goroutine h is at
    req,         \* req[h]: what h has read of its request so far
    err,         \* err[h]: the error of the locked region (Sync/VSync)
    ret,         \* ret[h]: the error the handler returned
    resp,        \* resp[h]: the response written through w
    hasWritten,  \* hasWritten[h]: listPolicy's flag
    iter,        \* iter[h]: listPolicy's iterator
    policy,      \* policy[h]: the policy describe/read fetched
    trace,       \* trace[h]: the calls h made on the vault and enclave
    vaultLock,   \* the vault's RWMutex
    enclaveLock, \* enclaveLock[e]: enclave e's RWMutex
    policies,    \* policies[e]: policy name -> auth.Policy
    assignments, \* assignments[e]: identity -> policy name
    clock,       \* time.Now()
    history,     \* the SetPolicy and DeletePolicy calls that succeeded, in order
    served,      \* requests accepted so far
    sched        \* the goroutines that serve requests, and how many requests

locals == <<req, err, ret, resp, hasWritten, iter, policy>>
locks == <<vaultLock, enclaveLock>>
store == <<policies, assignments, clock, history>>
vars == <<pc, req, err, ret, resp, hasWritten, iter, policy, trace,
          vaultLock, enclaveLock, policies, assignments, clock, history, served, sched>>

\* auth.Policy and its zero value
Policy(allow, deny, at, by) ==
    [allow |-> allow, deny |-> deny, createdAt |-> at, createdBy |-> by]
ZeroPolicy == Policy(<<>>, <<>>, 0, IdentityUnknown)

\* The JSON bodies a write request may carry.
WriteBodies ==
    { [allow |-> <<"/v1/key/*">>, deny |-> <<>>],
      [allow |-> <<>>, deny |-> <<"/v1/key/*">>] }

NoRequest ==
    [op |-> "none", name |-> <<>>, enclave |-> MissingEnclave,
     self |-> IdentityUnknown, identity |-> IdentityUnknown,
     body |-> [allow |-> <<>>, deny |-> <<>>]]
NoResponse == [status |-> 0, contentType |-> "", body |-> <<>>, commits |-> 0]
ClosedIterator == [open |-> FALSE, left |-> {}, name |-> <<>>]

\* Map updates of the stores: m[k] = v, and delete(m, k).
Put(m, k, v) == [x \in DOMAIN m \cup {k} |-> IF x = k THEN v ELSE m[x]]
Remove(m, k) == [x \in DOMAIN m \ {k} |-> m[x]]

\* The policies of the enclaves when the server starts: e1 holds every
\* policy name, e2 none.
InitialPolicies(e) ==
    IF e = "e1"
    THEN [n \in PolicyNames |-> Policy(<<"/v1/key/*">>, <<>>, 0, Admin)]
    ELSE [n \in {} |-> ZeroPolicy]

InitState ==
    /\ pc = [h \in Handlers |-> "idle"]
    /\ req = [h \in Handlers |-> NoRequest]
    /\ err = [h \in Handlers |-> Nil]
    /\ ret = [h \in Handlers |-> Nil]
    /\ resp = [h \in Handlers |-> NoResponse]
    /\ hasWritten = [h \in Handlers |-> FALSE]
    /\ iter = [h \in Handlers |-> ClosedIterator]
    /\ policy = [h \in Handlers |-> ZeroPolicy]
    /\ trace = [h \in Handlers |-> <<>>]
    /\ vaultLock = FreeLock
    /\ enclaveLock = [e \in Enclaves |-> FreeLock]
    /\ policies = [e \in Enclaves |-> InitialPolicies(e)]
    /\ assignments = [e \in Enclaves |-> [i \in {} |-> <<>>]]
    /\ clock = 0
    /\ history = <<>>
    /\ served = 0

\* NumHandlers goroutines serve MaxRequests requests concurrently.
Init ==
    /\ InitState
    /\ sched = [workers |-> Handlers, requests |-> MaxRequests]

\* One goroutine serves MaxSeqRequests requests one after another.
SeqInit ==
    /\ InitState
    /\ sched = [workers |-> {1}, requests |-> MaxSeqRequests]

\* ------------------------------------------- the collaborators' results
\* enclaveFromRequest(vault, r): the enclave the request names, or not found.
enclaveFromRequest(e) == IF e \in Enclaves THEN Nil ELSE ErrEnclaveNotFound

\* enclave.VerifyRequest(r): the verification collaborator accepts or refuses.
VerifyResults == {Nil, ErrNotAllowed}

\* config.Vault.Admin(ctx): the admin identity, or the store's failure.
AdminResults == {[admin |-> Admin, err |-> Nil], [admin |-> IdentityUnknown, err |-> ErrStore]}

\* enclave.GetPolicy(ctx, name)
GetPolicyResults(e, name) ==
    IF name \in DOMAIN policies[e]
    THEN {[policy |-> policies[e][name], err |-> Nil],
          [policy |-> ZeroPolicy, err |-> ErrStore]}
    ELSE {[policy |-> ZeroPolicy, err |-> ErrPolicyNotFound]}

\* enclave.AssignPolicy(ctx, name, identity): the policy must exist.
AssignPolicyResults(e, name) ==
    IF name \in DOMAIN policies[e] THEN {Nil, ErrStore} ELSE {ErrPolicyNotFound}

\* enclave.SetPolicy(ctx, name, policy)
SetPolicyResults == {Nil, ErrStore}

\* enclave.DeletePolicy(ctx, name): not found when the name is absent.
DeletePolicyResults(e, name) ==
    IF name \in DOMAIN policies[e] THEN {Nil, ErrStore} ELSE {ErrPolicyNotFound}

\* enclave.ListPolicies(ctx)
ListPoliciesResults == {Nil, ErrStore}

\* iterator.Close() once Next() returned false: nil only at the end of the
\* names; the iterator's own failure may end the iteration anywhere.
CloseResults(it) == IF it.left = {} THEN {Nil, ErrStore} ELSE {ErrStore}

\* encoder.Encode(v) on the response writer
EncodeResults == {Nil, ErrWrite}

\* ---------------------------------------------------- response writer
\* w.Header().Set("Content-Type", t); w.WriteHeader(code)
WriteHeader(r, contentType, code) ==
    [r EXCEPT !.contentType = contentType, !.status = code, !.commits = @ + 1]
\* json.NewEncoder(w).Encode(v): one line of the body
Encode(r, v) == [r EXCEPT !.body = Append(@, v)]

\* listPolicy's Response struct
ListRecord(name, p) ==
    [name |-> name, created_at |-> p.createdAt, created_by |-> p.createdBy, error |-> ""]
ErrorRecord(e) ==
    [name |-> <<>>, created_at |-> 0, created_by |-> IdentityUnknown, error |-> e.msg]

\* ------------------------------------------------------------ helpers
Log(h, event) == trace' = [trace EXCEPT ![h] = Append(@, event)]
Goto(h, label) == pc' = [pc EXCEPT ![h] = label]
Fail(h, e) == err' = [err EXCEPT ![h] = e]

\* The first step of each handler inside the enclave lock, after
\* VerifyRequest succeeded.
AfterVerify(op) ==
    CASE op = "assign" -> "decode"
      [] op = "write" -> "decode"
      [] op = "describe" -> "getPolicy"
      [] op = "read" -> "getPolicy"
      [] op = "delete" -> "deletePolicy"
      [] op = "list" -> "listPolicies"

\* The names and patterns a request path may carry.
RequestNames(op) ==
    IF op = "list" THEN Patterns \cup {BadPattern} ELSE PolicyNames \cup {BadName}

\* ------------------------------------------------------------ actions
\* Variant of Start: the handler enters Sync before it looks at the error of
\* nameFromRequest.
StartNameUnchecked(h) ==
    /\ pc[h] \in {"idle", "done"}
    /\ h \in sched.workers
    /\ served < sched.requests
    /\ served' = served + 1
    /\ \E op \in Ops : \E name \in RequestNames(op) :
         /\ req' = [req EXCEPT ![h] = [NoRequest EXCEPT !.op = op, !.name = name]]
         /\ ret' = [ret EXCEPT ![h] = Nil]
         /\ Goto(h, "vaultRLock")
    /\ err' = [err EXCEPT ![h] = Nil]
    /\ resp' = [resp EXCEPT ![h] = NoResponse]
    /\ hasWritten' = [hasWritten EXCEPT ![h] = FALSE]
    /\ iter' = [iter EXCEPT ![h] = ClosedIterator]
    /\ policy' = [policy EXCEPT ![h] = ZeroPolicy]
    /\ trace' = [trace EXCEPT ![h] = <<>>]
    /\ UNCHANGED <<locks, store, sched>>

\* A request arrives; the handler reads the name (or pattern) from the path
\* and returns the error when it is malformed.
Start(h) ==
    /\ pc[h] \in {"idle", "done"}
    /\ h \in sched.workers
    /\ served < sched.requests
    /\ served' = served + 1
    /\ \E op \in Ops : \E name \in RequestNames(op) :
         LET e == IF op = "list" THEN patternFromRequest(name) ELSE nameFromRequest(name)
         IN /\ req' = [req EXCEPT ![h] = [NoRequest EXCEPT !.op = op, !.name = name]]
            /\ ret' = [ret EXCEPT ![h] = e]
            /\ Goto(h, IF e = Nil THEN "vaultRLock" ELSE "done")
    /\ err' = [err EXCEPT ![h] = Nil]
    /\ resp' = [resp EXCEPT ![h] = NoResponse]
    /\ hasWritten' = [hasWritten EXCEPT ![h] = FALSE]
    /\ iter' = [iter EXCEPT ![h] = ClosedIterator]
    /\ policy' = [policy EXCEPT ![h] = ZeroPolicy]
    /\ trace' = [trace EXCEPT ![h] = <<>>]
    /\ UNCHANGED <<locks, store, sched>>

\* Variant of VaultRLock: the handler goes on to the enclave without the
\* outer Sync(config.Vault.RLocker(), ...).
VaultRLockSkipped(h) ==
    /\ pc[h] = "vaultRLock"
    /\ Goto(h, "resolve")
    /\ UNCHANGED <<locals, trace, locks, store, served, sched>>

\* Variant of VaultRLock: the handler takes config.Vault.Locker(), the
\* vault's write lock.
VaultLockExclusive(h) ==
    /\ pc[h] = "vaultRLock"
    /\ CanLock(vaultLock)
    /\ vaultLock' = Lock(vaultLock, h)
    /\ Goto(h, "resolve")
    /\ Log(h, "Vault.RLock")
    /\ UNCHANGED <<locals, enclaveLock, store, served, sched>>

\* Sync(config.Vault.RLocker(), ...): the vault read lock is acquired.
VaultRLock(h) ==
    /\ pc[h] = "vaultRLock"
    /\ CanRLock(vaultLock)
    /\ vaultLock' = RLock(vaultLock, h)
    /\ Goto(h, "resolve")
    /\ Log(h, "Vault.RLock")
    /\ UNCHANGED <<locals, enclaveLock, store, served, sched>>

\* enclaveFromRequest(config.Vault, r)
ResolveEnclave(h) ==
    /\ pc[h] = "resolve"
    /\ \E e \in Enclaves \cup {MissingEnclave} :
         LET r == enclaveFromRequest(e)
         IN /\ req' = [req EXCEPT ![h].enclave = e]
            /\ Fail(h, r)
            /\ Goto(h, IF r = Nil THEN "enclaveLock" ELSE "vaultRUnlock")
    /\ UNCHANGED <<ret, resp, hasWritten, iter, policy, trace, locks, store, served, sched>>

\* Variant of EnclaveLock: the closure runs whether or not the lock could
\* be taken (a try-lock whose result is not looked at).
EnclaveLockTry(h) ==
    /\ pc[h] = "enclaveLock"
    /\ LET e == req[h].enclave
       IN IF EnclaveLockMode(req[h].op) = "write"
          THEN /\ enclaveLock' = [enclaveLock EXCEPT ![e] =
                                    IF CanLock(@) THEN Lock(@, h) ELSE @]
               /\ Log(h, "Enclave.Lock")
          ELSE /\ enclaveLock' = [enclaveLock EXCEPT ![e] =
                                    IF CanRLock(@) THEN RLock(@, h) ELSE @]
               /\ Log(h, "Enclave.RLock")
    /\ Goto(h, "verify")
    /\ UNCHANGED <<locals, vaultLock, store, served, sched>>

\* Sync(enclave.Locker(), ...) or VSync(enclave.RLocker(), ...)
EnclaveLock(h) ==
    /\ pc[h] = "enclaveLock"
    /\ LET e == req[h].enclave
       IN IF EnclaveLockMode(req[h].op) = "write"
          THEN /\ CanLock(enclaveLock[e])
               /\ enclaveLock' = [enclaveLock EXCEPT ![e] = Lock(@, h)]
               /\ Log(h, "Enclave.Lock")
          ELSE /\ CanRLock(enclaveLock[e])
               /\ enclaveLock' = [enclaveLock EXCEPT ![e] = RLock(@, h)]
               /\ Log(h, "Enclave.RLock")
    /\ Goto(h, "verify")
    /\ UNCHANGED <<locals, vaultLock, store, served, sched>>

\* Variant of VerifyRequest: the handler goes on whatever VerifyRequest returns.
VerifyRequestIgnored(h) ==
    /\ pc[h] = "verify"
    /\ \E r \in VerifyResults :
         /\ Fail(h, r)
         /\ Goto(h, AfterVerify(req[h].op))
         /\ Log(h, IF r = Nil THEN "VerifyRequest" ELSE "VerifyRequest refused")
    /\ UNCHANGED <<req, ret, resp, hasWritten, iter, policy, locks, store, served, sched>>

\* Variant of VerifyRequest: a refused request leaves the handler without
\* passing through the returns of Sync.
VerifyRequestNoRelease(h) ==
    /\ pc[h] = "verify"
    /\ \E r \in VerifyResults :
         /\ Fail(h, r)
         /\ Goto(h, IF r = Nil THEN AfterVerify(req[h].op) ELSE "respond")
         /\ Log(h, IF r = Nil THEN "VerifyRequest" ELSE "VerifyRequest refused")
    /\ UNCHANGED <<req, ret, resp, hasWritten, iter, policy, locks, store, served, sched>>

\* enclave.VerifyRequest(r)
VerifyRequest(h) ==
    /\ pc[h] = "verify"
    /\ \E r \in VerifyResults :
         /\ Fail(h, r)
         /\ Goto(h, IF r = Nil THEN AfterVerify(req[h].op) ELSE "enclaveUnlock")
         /\ Log(h, IF r = Nil THEN "VerifyRequest" ELSE "VerifyRequest refused")
    /\ UNCHANGED <<req, ret, resp, hasWritten, iter, policy, locks, store, served, sched>>
\* auth.Identify(r) of a request that VerifyRequest accepted, and the JSON
\* bodies of assign and write requests as json.Decode reads them.
Requesters == Identities
DecodeResults(op) ==
    IF op = "assign"
    THEN {[err |-> Nil, identity |-> i, body |-> NoRequest.body] :
             i \in Identities \cup {IdentityUnknown, BadIdentity}}
         \cup {[err |-> ErrDecode, identity |-> IdentityUnknown, body |-> NoRequest.body]}
    ELSE {[err |-> Nil, identity |-> IdentityUnknown, body |-> b] : b \in WriteBodies}
         \cup {[err |-> ErrDecode, identity |-> IdentityUnknown, body |-> NoRequest.body]}

\* Variant of Decode: the handler goes on with the zero value of the body
\* when the decoder fails.
DecodeIgnored(h) ==
    /\ pc[h] = "decode"
    /\ \E d \in DecodeResults(req[h].op) :
         /\ req' = [req EXCEPT ![h].identity = d.identity, ![h].body = d.body]
         /\ Fail(h, d.err)
         /\ Goto(h, IF req[h].op = "assign" THEN "checks" ELSE "setPolicy")
    /\ UNCHANGED <<ret, resp, hasWritten, iter, policy, trace, locks, store, served, sched>>

\* json.NewDecoder(r.Body).Decode(&req) in assign and write
Decode(h) ==
    /\ pc[h] = "decode"
    /\ \E d \in DecodeResults(req[h].op) :
         /\ req' = [req EXCEPT ![h].identity = d.identity, ![h].body = d.body]
         /\ Fail(h, d.err)
         /\ Goto(h, IF d.err # Nil THEN "enclaveUnlock"
                    ELSE IF req[h].op = "assign" THEN "checks" ELSE "setPolicy")
    /\ UNCHANGED <<ret, resp, hasWritten, iter, policy, trace, locks, store, served, sched>>

\* Variant of AssignPrecondition: the self-assignment check is missing.
AssignPreconditionNoSelf(identity, self, a) ==
    IF verifyName(identity) # Nil THEN verifyName(identity)
    ELSE IF IsUnknown(identity) THEN ErrIdentityUnknown
    ELSE IF a.err # Nil THEN a.err
    ELSE IF a.admin = identity THEN ErrAdminAssign
    ELSE Nil

\* Variant of AssignPrecondition: the admin check is missing.
AssignPreconditionNoAdmin(identity, self, a) ==
    IF verifyName(identity) # Nil THEN verifyName(identity)
    ELSE IF IsUnknown(identity) THEN ErrIdentityUnknown
    ELSE IF self = identity THEN ErrSelfAssign
    ELSE IF a.err # Nil THEN a.err
    ELSE Nil

\* Variant of AssignPrecondition: the admin check comes before the
\* self-assignment check.
AssignPreconditionAdminFirst(identity, self, a) ==
    IF verifyName(identity) # Nil THEN verifyName(identity)
    ELSE IF IsUnknown(identity) THEN ErrIdentityUnknown
    ELSE IF a.err # Nil THEN a.err
    ELSE IF a.admin = identity THEN ErrAdminAssign
    ELSE IF self = identity THEN ErrSelfAssign
    ELSE Nil

\* assignPolicy's preconditions on the target identity, in the order of
\* the code: the first that fails is the error returned.
AssignPrecondition(identity, self, a) ==
    IF verifyName(identity) # Nil THEN verifyName(identity)
    ELSE IF IsUnknown(identity) THEN ErrIdentityUnknown
    ELSE IF self = identity THEN ErrSelfAssign
    ELSE IF a.err # Nil THEN a.err
    ELSE IF a.admin = identity THEN ErrAdminAssign
    ELSE Nil

\* auth.Identify(r) is read once the target passed the first two checks.
AssignChecks(h) ==
    /\ pc[h] = "checks"
    /\ \E self \in Requesters : \E a \in AdminResults :
         LET id == req[h].identity
             e == AssignPrecondition(id, self, a)
         IN /\ req' = [req EXCEPT ![h].self =
                         IF verifyName(id) = Nil /\ ~IsUnknown(id) THEN self ELSE @]
            /\ Fail(h, e)
            /\ Goto(h, IF e = Nil THEN "assignPolicy" ELSE "enclaveUnlock")
    /\ UNCHANGED <<ret, resp, hasWritten, iter, policy, trace, locks, store, served, sched>>

\* enclave.AssignPolicy(r.Context(), name, req.Identity)
AssignPolicy(h) ==
    /\ pc[h] = "assignPolicy"
    /\ LET e == req[h].enclave
       IN \E r \in AssignPolicyResults(e, req[h].name) :
            /\ assignments' =
                 IF r = Nil
                 THEN [assignments EXCEPT ![e] = Put(@, req[h].identity, req[h].name)]
                 ELSE assignments
            /\ Fail(h, r)
    /\ Goto(h, "enclaveUnlock")
    /\ Log(h, "AssignPolicy")
    /\ UNCHANGED <<req, ret, resp, hasWritten, iter, policy, locks, policies, clock, history,
                   served, sched>>

\* enclave.GetPolicy(r.Context(), name) in describe and read
GetPolicy(h) ==
    /\ pc[h] = "getPolicy"
    /\ \E r \in GetPolicyResults(req[h].enclave, req[h].name) :
         /\ policy' = [policy EXCEPT ![h] = r.policy]
         /\ Fail(h, r.err)
    /\ Goto(h, "enclaveUnlock")
    /\ Log(h, "GetPolicy")
    /\ UNCHANGED <<req, ret, resp, hasWritten, iter, locks, store, served, sched>>

\* The entries of history: what a write asked the enclave to store, and
\* what a delete removed.
Written(h, e, name, body, at, by) ==
    [op |-> "SetPolicy", handler |-> h, enclave |-> e, name |-> name,
     allow |-> body.allow, deny |-> body.deny, at |-> at, by |-> by]
Deleted(h, e, name) ==
    [op |-> "DeletePolicy", handler |-> h, enclave |-> e, name |-> name,
     allow |-> <<>>, deny |-> <<>>, at |-> 0, by |-> IdentityUnknown]

\* Variant of SetPolicy: the rules of the request are added to the rules of
\* the policy already stored under the name.
SetPolicyMerge(h) ==
    /\ pc[h] = "setPolicy"
    /\ clock' = clock + 1
    /\ \E self \in Requesters : \E r \in SetPolicyResults :
         LET e == req[h].enclave
             old == IF req[h].name \in DOMAIN policies[e] THEN policies[e][req[h].name]
                    ELSE ZeroPolicy
             p == Policy(old.allow \o req[h].body.allow, old.deny \o req[h].body.deny,
                         clock', self)
         IN /\ req' = [req EXCEPT ![h].self = self]
            /\ policies' =
                 IF r = Nil THEN [policies EXCEPT ![e] = Put(@, req[h].name, p)]
                 ELSE policies
            /\ history' =
                 IF r = Nil THEN Append(history, Written(h, e, req[h].name, req[h].body, clock', self))
                 ELSE history
            /\ Fail(h, r)
    /\ Goto(h, "enclaveUnlock")
    /\ Log(h, "SetPolicy")
    /\ UNCHANGED <<ret, resp, hasWritten, iter, policy, locks, assignments, served, sched>>

\* enclave.SetPolicy(r.Context(), name, auth.Policy{...}) in write
SetPolicy(h) ==
    /\ pc[h] = "setPolicy"
    /\ clock' = clock + 1
    /\ \E self \in Requesters : \E r \in SetPolicyResults :
         LET e == req[h].enclave
             p == Policy(req[h].body.allow, req[h].body.deny, clock', self)
         IN /\ req' = [req EXCEPT ![h].self = self]
            /\ policies' =
                 IF r = Nil THEN [policies EXCEPT ![e] = Put(@, req[h].name, p)]
                 ELSE policies
            /\ history' =
                 IF r = Nil THEN Append(history, Written(h, e, req[h].name, req[h].body, clock', self))
                 ELSE history
            /\ Fail(h, r)
    /\ Goto(h, "enclaveUnlock")
    /\ Log(h, "SetPolicy")
    /\ UNCHANGED <<ret, resp, hasWritten, iter, policy, locks, assignments, served, sched>>

\* Variant of DeletePolicy: the delete takes the enclave lock again while
\* the handler already holds it.
DeletePolicyRelock(h) ==
    /\ pc[h] = "deletePolicy"
    /\ CanLock(enclaveLock[req[h].enclave])
    /\ policies' = [policies EXCEPT ![req[h].enclave] = Remove(@, req[h].name)]
    /\ history' = Append(history, Deleted(h, req[h].enclave, req[h].name))
    /\ Goto(h, "enclaveUnlock")
    /\ Log(h, "DeletePolicy")
    /\ UNCHANGED <<locals, locks, assignments, clock, served, sched>>

\* Variant of DeletePolicy: the handler drops the error of
\* enclave.DeletePolicy and reports success.
DeletePolicySilent(h) ==
    /\ pc[h] = "deletePolicy"
    /\ LET e == req[h].enclave
       IN \E r \in DeletePolicyResults(e, req[h].name) :
            /\ policies' =
                 IF r = Nil THEN [policies EXCEPT ![e] = Remove(@, req[h].name)]
                 ELSE policies
            /\ history' =
                 IF r = Nil THEN Append(history, Deleted(h, e, req[h].name)) ELSE history
            /\ Fail(h, Nil)
    /\ Goto(h, "enclaveUnlock")
    /\ Log(h, "DeletePolicy")
    /\ UNCHANGED <<req, ret, resp, hasWritten, iter, policy, locks, assignments, clock, served, sched>>

\* enclave.DeletePolicy(r.Context(), name) in delete
DeletePolicy(h) ==
    /\ pc[h] = "deletePolicy"
    /\ LET e == req[h].enclave
       IN \E r \in DeletePolicyResults(e, req[h].name) :
            /\ policies' =
                 IF r = Nil THEN [policies EXCEPT ![e] = Remove(@, req[h].name)]
                 ELSE policies
            /\ history' =
                 IF r = Nil THEN Append(history, Deleted(h, e, req[h].name)) ELSE history
            /\ Fail(h, r)
    /\ Goto(h, "enclaveUnlock")
    /\ Log(h, "DeletePolicy")
    /\ UNCHANGED <<req, ret, resp, hasWritten, iter, policy, locks, assignments, clock, served, sched>>

\* enclave.ListPolicies(r.Context()) in list
ListPolicies(h) ==
    /\ pc[h] = "listPolicies"
    /\ \E r \in ListPoliciesResults :
         /\ iter' = [iter EXCEPT ![h] =
                       IF r = Nil
                       THEN [open |-> TRUE, left |-> DOMAIN policies[req[h].enclave],
                             name |-> <<>>]
                       ELSE ClosedIterator]
         /\ Fail(h, r)
         /\ Goto(h, IF r = Nil THEN "listNext" ELSE "enclaveUnlock")
    /\ Log(h, "ListPolicies")
    /\ UNCHANGED <<req, ret, resp, hasWritten, policy, locks, store, served, sched>>

\* Variant of CommitOnMatch: the header is left to the end of the handler.
CommitOnMatchNever(r, written) == r

\* Variant of CommitOnMatch: the header is written for every match, the
\* flag not being looked at.
CommitOnMatchAlways(r, written) ==
    [r EXCEPT !.contentType = "application/x-ndjson", !.status = StatusOK,
              !.commits = @ + 1]

\* The header listPolicy commits on the first match.
CommitOnMatch(r, written) ==
    IF ~written
    THEN [r EXCEPT !.contentType = "application/x-ndjson", !.status = StatusOK,
                   !.commits = @ + 1]
    ELSE r

\* Variant of ListNext: the header is committed for every name the iterator
\* yields, before the name is matched against the pattern.
ListNextCommitEarly(h) ==
    /\ pc[h] = "listNext"
    /\ \/ \E n \in iter[h].left :
            /\ iter' = [iter EXCEPT ![h].left = @ \ {n}, ![h].name = n]
            /\ hasWritten' = [hasWritten EXCEPT ![h] = TRUE]
            /\ resp' = [resp EXCEPT ![h] = CommitOnMatch(@, hasWritten[h])]
            /\ Goto(h, IF Match(req[h].name, n) THEN "listGet" ELSE "listNext")
            /\ Log(h, "Iterator.Next")
            /\ UNCHANGED err
       \/ \E r \in CloseResults(iter[h]) :
            /\ iter' = [iter EXCEPT ![h] = ClosedIterator]
            /\ Fail(h, r)
            /\ Goto(h, "enclaveUnlock")
            /\ Log(h, IF r = Nil THEN "Iterator.Close" ELSE "Iterator.Close failed")
            /\ UNCHANGED <<hasWritten, resp>>
    /\ UNCHANGED <<req, ret, policy, locks, store, served, sched>>

\* Variant of ListNext: the iterator is closed by the deferred call alone,
\* whose error is dropped.
ListNextCloseIgnored(h) ==
    /\ pc[h] = "listNext"
    /\ \/ \E n \in iter[h].left :
            /\ iter' = [iter EXCEPT ![h].left = @ \ {n}, ![h].name = n]
            /\ IF Match(req[h].name, n)
               THEN /\ hasWritten' = [hasWritten EXCEPT ![h] = TRUE]
                    /\ resp' = [resp EXCEPT ![h] = CommitOnMatch(@, hasWritten[h])]
                    /\ Goto(h, "listGet")
               ELSE UNCHANGED <<hasWritten, resp, pc>>
            /\ Log(h, "Iterator.Next")
            /\ UNCHANGED err
       \/ \E r \in CloseResults(iter[h]) :
            /\ iter' = [iter EXCEPT ![h] = ClosedIterator]
            /\ Fail(h, Nil)
            /\ Goto(h, "enclaveUnlock")
            /\ Log(h, IF r = Nil THEN "Iterator.Close" ELSE "Iterator.Close failed")
            /\ UNCHANGED <<hasWritten, resp>>
    /\ UNCHANGED <<req, ret, policy, locks, store, served, sched>>

\* One turn of the loop head: iterator.Next(), path.Match, the header on
\* the first match; or Next() is false and the iterator is closed.
ListNext(h) ==
    /\ pc[h] = "listNext"
    /\ \/ \E n \in iter[h].left :
            /\ iter' = [iter EXCEPT ![h].left = @ \ {n}, ![h].name = n]
            /\ IF Match(req[h].name, n)
               THEN /\ hasWritten' = [hasWritten EXCEPT ![h] = TRUE]
                    /\ resp' = [resp EXCEPT ![h] = CommitOnMatch(@, hasWritten[h])]
                    /\ Goto(h, "listGet")
               ELSE UNCHANGED <<hasWritten, resp, pc>>
            /\ Log(h, "Iterator.Next")
            /\ UNCHANGED err
       \/ \E r \in CloseResults(iter[h]) :
            /\ iter' = [iter EXCEPT ![h] = ClosedIterator]
            /\ Fail(h, r)
            /\ Goto(h, "enclaveUnlock")
            /\ Log(h, IF r = Nil THEN "Iterator.Close" ELSE "Iterator.Close failed")
            /\ UNCHANGED <<hasWritten, resp>>
    /\ UNCHANGED <<req, ret, policy, locks, store, served, sched>>

\* Variant of ListGet: the loop is left after the first record.
ListGetOnce(h) ==
    /\ pc[h] = "listGet"
    /\ \E g \in GetPolicyResults(req[h].enclave, iter[h].name) : \E w \in EncodeResults :
         LET e == IF g.err # Nil THEN g.err ELSE w
         IN /\ resp' = [resp EXCEPT ![h] =
                          IF e = Nil THEN Encode(@, ListRecord(iter[h].name, g.policy))
                          ELSE @]
            /\ iter' = [iter EXCEPT ![h] = ClosedIterator]
            /\ Fail(h, e)
            /\ Goto(h, "enclaveUnlock")
            /\ Log(h, IF g.err # Nil THEN "GetPolicy failed" ELSE "GetPolicy")
    /\ UNCHANGED <<req, ret, hasWritten, policy, locks, store, served, sched>>

\* The loop body after the header: enclave.GetPolicy and encoder.Encode.
ListGet(h) ==
    /\ pc[h] = "listGet"
    /\ \E g \in GetPolicyResults(req[h].enclave, iter[h].name) : \E w \in EncodeResults :
         LET e == IF g.err # Nil THEN g.err ELSE w
         IN /\ resp' = [resp EXCEPT ![h] =
                          IF e = Nil THEN Encode(@, ListRecord(iter[h].name, g.policy))
                          ELSE @]
            /\ iter' = [iter EXCEPT ![h] = IF e = Nil THEN @ ELSE ClosedIterator]
            /\ Fail(h, e)
            /\ Goto(h, IF e = Nil THEN "listNext" ELSE "enclaveUnlock")
            /\ Log(h, IF g.err # Nil THEN "GetPolicy failed" ELSE "GetPolicy")
    /\ UNCHANGED <<req, ret, hasWritten, policy, locks, store, served, sched>>

\* The inner Sync/VSync returns: the enclave lock is released.
EnclaveUnlock(h) ==
    /\ pc[h] = "enclaveUnlock"
    /\ enclaveLock' = [enclaveLock EXCEPT ![req[h].enclave] = Unlock(@, h)]
    /\ Goto(h, "vaultRUnlock")
    /\ Log(h, "Enclave.Unlock")
    /\ UNCHANGED <<locals, vaultLock, store, served, sched>>

\* The outer Sync/VSync returns: the vault read lock is released.
VaultRUnlock(h) ==
    /\ pc[h] = "vaultRUnlock"
    /\ vaultLock' = Unlock(vaultLock, h)
    /\ Goto(h, "respond")
    /\ Log(h, "Vault.RUnlock")
    /\ UNCHANGED <<locals, enclaveLock, store, served, sched>>

\* describePolicy's and readPolicy's Response structs
DescribeResponse(p) == [created_at |-> p.createdAt, created_by |-> p.createdBy]
ReadResponse(p) ==
    [allow |-> p.allow, deny |-> p.deny,
     created_at |-> p.createdAt, created_by |-> p.createdBy]

\* Variant of Response: listPolicy returns the error of the locked region
\* whether or not the header has been written.
ResponseReturnsErr(op, r, e, written, p) ==
    IF e # Nil THEN [resp |-> r, ret |-> e]
    ELSE IF op = "list"
         THEN [resp |-> IF ~written THEN WriteHeader(r, r.contentType, StatusOK) ELSE r,
               ret |-> Nil]
    ELSE [resp |-> WriteHeader(r, r.contentType, StatusOK), ret |-> Nil]

\* What the handler writes and returns once the locked region returned.
Response(op, r, e, written, p) ==
    IF op = "list"
    THEN IF e # Nil
         THEN IF written
              THEN [resp |-> IF e = ErrWrite THEN r ELSE Encode(r, ErrorRecord(e)),
                    ret |-> Nil]
              ELSE [resp |-> r, ret |-> e]
         ELSE [resp |-> IF ~written THEN WriteHeader(r, r.contentType, StatusOK) ELSE r,
               ret |-> Nil]
    ELSE IF e # Nil THEN [resp |-> r, ret |-> e]
    ELSE IF op = "describe"
         THEN [resp |-> Encode(WriteHeader(r, "application/json", StatusOK),
                               DescribeResponse(p)),
               ret |-> Nil]
    ELSE IF op = "read"
         THEN [resp |-> Encode(WriteHeader(r, "application/json", StatusOK),
                               ReadResponse(p)),
               ret |-> Nil]
    ELSE [resp |-> WriteHeader(r, r.contentType, StatusOK), ret |-> Nil]

Respond(h) ==
    /\ pc[h] = "respond"
    /\ LET out == Response(req[h].op, resp[h], err[h], hasWritten[h], policy[h])
       IN /\ resp' = [resp EXCEPT ![h] = out.resp]
          /\ ret' = [ret EXCEPT ![h] = out.ret]
    /\ Goto(h, "done")
    /\ UNCHANGED <<req, err, hasWritten, iter, policy, trace, locks, store, served, sched>>

\* ------------------------------------------------------ specification
Step(h) ==
    \/ VaultRLock(h)
    \/ ResolveEnclave(h)
    \/ EnclaveLock(h)
    \/ VerifyRequest(h)
    \/ Decode(h)
    \/ AssignChecks(h)
    \/ AssignPolicy(h)
    \/ GetPolicy(h)
    \/ SetPolicy(h)
    \/ DeletePolicy(h)
    \/ ListPolicies(h)
    \/ ListNext(h)
    \/ ListGet(h)
    \/ EnclaveUnlock(h)
    \/ VaultRUnlock(h)
    \/ Respond(h)

Next == \E h \in Handlers : Start(h) \/ Step(h)

Spec == Init /\ [][Next]_vars

SeqSpec == SeqInit /\ [][Next]_vars

\* Every goroutine that can take a step eventually takes one (the Go
\* scheduler runs every runnable goroutine; the collaborators' calls return).
LiveSpec == Spec /\ \A h \in Handlers : WF_vars(Step(h))
\* ======================================================== properties
\* Where a handler is, relative to its two nested Sync/VSync closures.
InEnclaveRegion(h) ==
    pc[h] \in {"verify", "decode", "checks", "assignPolicy", "getPolicy", "setPolicy",
               "deletePolicy", "listPolicies", "listNext", "listGet", "enclaveUnlock"}
Returned(h) == pc[h] \in {"respond", "done"}
Mutating(h) == pc[h] \in {"assignPolicy", "setPolicy", "deletePolicy"}
HeldEnclaves(h) == {e \in Enclaves : Holds(enclaveLock[e], h)}

LockEvents == {"Vault.RLock", "Enclave.Lock", "Enclave.RLock", "Enclave.Unlock", "Vault.RUnlock"}
IsLockEvent(ev) == ev \in LockEvents
LockTrace(h) == SelectSeq(trace[h], IsLockEvent)
Count(t, ev) == Cardinality({i \in 1..Len(t) : t[i] = ev})
Called(h, ev) == Count(trace[h], ev) > 0

\* C1: in every reachable state, a handler that holds an enclave lock (read
\* or write) also holds the vault read lock, which it acquired first, and no
\* handler holds the locks of two enclaves.
C1_LockHierarchy ==
    \A h \in Handlers :
        /\ Cardinality(HeldEnclaves(h)) <= 1
        /\ HeldEnclaves(h) # {} =>
              /\ h \in vaultLock.readers
              /\ Len(trace[h]) >= 2
              /\ trace[h][1] = "Vault.RLock"
              /\ trace[h][2] \in {"Enclave.Lock", "Enclave.RLock"}

\* Two handlers hold the locks of the two enclaves, both under the vault lock.
C1_Witness ==
    \E h, g \in Handlers :
        /\ h # g
        /\ enclaveLock["e1"].writer = h
        /\ g \in enclaveLock["e2"].readers
        /\ {h, g} \subseteq vaultLock.readers

\* C2: describe, read and list hold the enclave lock for reading, assign,
\* write and delete hold it for writing, all under the vault read lock; and a
\* handler about to perform AssignPolicy, SetPolicy or DeletePolicy on an
\* enclave never overlaps with another handler inside the locked region of
\* the same enclave.
C2_LockModesExclusion ==
    /\ vaultLock.writer = 0
    /\ \A h \in Handlers :
         InEnclaveRegion(h) =>
            /\ h \in vaultLock.readers
            /\ IF req[h].op \in {"assign", "write", "delete"}
               THEN enclaveLock[req[h].enclave].writer = h
               ELSE /\ req[h].op \in {"describe", "read", "list"}
                    /\ h \in enclaveLock[req[h].enclave].readers
    /\ \A h, g \in Handlers :
         (h # g /\ Mutating(h) /\ InEnclaveRegion(g)) => req[g].enclave # req[h].enclave

\* A writer is about to call SetPolicy while a reader of the same enclave
\* waits for the enclave lock.
C2_Witness ==
    \E h, g \in Handlers :
        /\ h # g
        /\ pc[h] = "setPolicy"
        /\ pc[g] = "enclaveLock"
        /\ req[g].op = "read"
        /\ req[g].enclave = req[h].enclave

\* C3: on every exit path of the locked region the enclave lock is released
\* before the vault read lock, each lock is released exactly once, and the
\* handler holds no lock once the locked region has returned.
C3_GuaranteedRelease ==
    \A h \in Handlers :
        /\ Count(trace[h], "Enclave.Unlock") <= 1
        /\ Count(trace[h], "Vault.RUnlock") <= 1
        /\ Returned(h) =>
              /\ HeldEnclaves(h) = {}
              /\ ~Holds(vaultLock, h)
              /\ \/ pc[h] = "done" /\ ret[h] = ErrName /\ LockTrace(h) = <<>>
                 \/ LockTrace(h) = <<"Vault.RLock", "Vault.RUnlock">>
                 \/ LockTrace(h) = <<"Vault.RLock", "Enclave.Lock", "Enclave.Unlock", "Vault.RUnlock">>
                 \/ LockTrace(h) = <<"Vault.RLock", "Enclave.RLock", "Enclave.Unlock", "Vault.RUnlock">>

\* An assign refused by a precondition and a request for a missing enclave
\* have both returned, and every lock is free again.
C3_Witness ==
    \E h, g \in Handlers :
        /\ h # g
        /\ pc[h] = "done" /\ pc[g] = "done"
        /\ err[h] = ErrSelfAssign
        /\ err[g] = ErrEnclaveNotFound
        /\ vaultLock = FreeLock
        /\ \A e \in Enclaves : enclaveLock[e] = FreeLock
\* C4: under fair scheduling, with every collaborator call returning, no
\* reachable state is a deadlock (while a handler is running some handler can
\* take a step) and every running handler eventually completes, holding no lock.
Running(h) == pc[h] \notin {"idle", "done"}
C4_DeadlockFreedom ==
    /\ []((\E h \in Handlers : Running(h)) => \E g \in Handlers : ENABLED Step(g))
    /\ \A h \in Handlers :
         Running(h) ~> (pc[h] = "done" /\ HeldEnclaves(h) = {} /\ ~Holds(vaultLock, h))

\* A handler waits for the lock of an enclave that a writer holds.
C4_Witness ==
    \E h, g \in Handlers :
        /\ h # g
        /\ pc[g] = "enclaveLock"
        /\ enclaveLock[req[g].enclave].writer = h
        /\ ~ENABLED EnclaveLock(g)
\* ------------------------------------------------- the list protocol
IsList(h) == req[h].op = "list"
Body(h) == resp[h].body
\* The successful and the failed metadata fetches of a list, so far.
Fetched(h) == Count(trace[h], "GetPolicy")
FetchFailed(h) == Count(trace[h], "GetPolicy failed") > 0
IsSuccessRecord(h, rec) ==
    /\ rec.error = ""
    /\ rec.name \in PolicyNames
    /\ Match(req[h].name, rec.name)

\* C5: when list fetched the metadata of a matching policy p1 and then the
\* fetch for a matching policy p2 fails, the response has the success status,
\* committed once, the handler returns no error, and the body is exactly one
\* success record for p1 followed by exactly one error record; no record ever
\* follows an error record.
C5_ListPartialFailure ==
    \A h \in Handlers :
        IsList(h) =>
          /\ \A i \in 1..(Len(Body(h)) - 1) : Body(h)[i].error = ""
          /\ (pc[h] = "done" /\ Fetched(h) = 1 /\ FetchFailed(h)) =>
                /\ ret[h] = Nil
                /\ resp[h].status = StatusOK
                /\ resp[h].commits = 1
                /\ Len(Body(h)) = 2
                /\ IsSuccessRecord(h, Body(h)[1])
                /\ err[h] # Nil
                /\ Body(h)[2] = ErrorRecord(err[h])

\* A list of a*, b* on enclave e1 wrote the record of one policy and then the
\* error record of the other.
C5_Witness ==
    \E h \in Handlers :
        /\ IsList(h) /\ pc[h] = "done"
        /\ req[h].name = MatchAll
        /\ Fetched(h) = 1 /\ FetchFailed(h)
        /\ Len(Body(h)) = 2
        /\ Body(h)[1].name = A1
        /\ Body(h)[2].error = ErrStore.msg

\* C6 as stated: a metadata fetch that fails before any record has been
\* written is returned as the handler's error, with no success status and no
\* in-body error record.
C6_Original ==
    \A h \in Handlers :
        (IsList(h) /\ pc[h] = "done" /\ FetchFailed(h) /\ Fetched(h) = 0) =>
            /\ ret[h] # Nil
            /\ resp[h].status # StatusOK
            /\ Body(h) = <<>>

\* C6, amended: the header is committed on the first match, before the first
\* fetch, so a failed fetch, even the first one, ends as the success status
\* with one final error record and no returned error; an error of the locked
\* region is returned as the handler's error, with nothing written, exactly
\* when it occurred before any match committed the header.
C6_FailureBeforeCommit ==
    \A h \in Handlers :
        IsList(h) =>
          /\ pc[h] = "listGet" => (hasWritten[h] /\ resp[h].status = StatusOK)
          /\ (pc[h] = "done" /\ FetchFailed(h)) =>
                /\ ret[h] = Nil
                /\ resp[h].status = StatusOK
                /\ resp[h].commits = 1
                /\ Len(Body(h)) = Fetched(h) + 1
                /\ Body(h)[Len(Body(h))] = ErrorRecord(err[h])
          /\ (pc[h] = "done" /\ err[h] # Nil) =>
                IF hasWritten[h]
                THEN ret[h] = Nil /\ resp[h].status = StatusOK
                ELSE ret[h] = err[h] /\ resp[h] = NoResponse

\* The fetch for the first matching policy failed: status 200 and a body of
\* one error record.
C6_Witness ==
    \E h \in Handlers :
        /\ IsList(h) /\ pc[h] = "done"
        /\ FetchFailed(h) /\ Fetched(h) = 0
        /\ ret[h] = Nil
        /\ resp[h].status = StatusOK
        /\ Body(h) = <<ErrorRecord(ErrStore)>>

\* C7: list commits the success status only when the iterator yields the
\* first name that matches the pattern; names that do not match commit
\* nothing and do not count as written; with no match and no error the
\* response is the success status with an empty body.
C7_DeferredCommit ==
    \A h \in Handlers :
        IsList(h) =>
          /\ pc[h] \in {"listNext", "listGet"} =>
                LET yielded == DOMAIN policies[req[h].enclave] \ iter[h].left
                IN hasWritten[h] <=> \E n \in yielded : Match(req[h].name, n)
          /\ pc[h] # "done" =>
                /\ resp[h].commits = IF hasWritten[h] THEN 1 ELSE 0
                /\ resp[h].status = IF hasWritten[h] THEN StatusOK ELSE 0
          /\ ~hasWritten[h] => Body(h) = <<>>
          /\ (pc[h] = "done" /\ Called(h, "Iterator.Close") /\ ~hasWritten[h]) =>
                /\ err[h] = Nil
                /\ ret[h] = Nil
                /\ resp[h].status = StatusOK
                /\ resp[h].commits = 1
                /\ Body(h) = <<>>

\* A list skipped a name that does not match, found no match and ended with
\* status 200 and an empty body.
C7_Witness ==
    \E h \in Handlers :
        /\ IsList(h) /\ pc[h] = "done"
        /\ Called(h, "Iterator.Close") /\ ~hasWritten[h]
        /\ Count(trace[h], "Iterator.Next") >= 1
        /\ resp[h].status = StatusOK
        /\ Body(h) = <<>>

\* ------------------------------------------------ assign's preconditions
IsAssign(h) == req[h].op = "assign"
\* The handler has evaluated the preconditions of assign.
Checked(h) ==
    IsAssign(h) /\ pc[h] \in {"assignPolicy", "enclaveUnlock", "vaultRUnlock", "respond", "done"}
           /\ Called(h, "VerifyRequest")
           /\ err[h] # ErrDecode

\* C8: an assign request authenticated as identity i whose target identity
\* is i fails as forbidden, and enclave.AssignPolicy is never called for it.
C8_SelfAssignment ==
    \A h \in Handlers :
        (Checked(h) /\ req[h].self \in Identities /\ req[h].identity = req[h].self) =>
            /\ err[h] = ErrSelfAssign
            /\ err[h].code = StatusForbidden
            /\ pc[h] # "assignPolicy"
            /\ ~Called(h, "AssignPolicy")
            /\ pc[h] = "done" => (ret[h] = ErrSelfAssign /\ resp[h] = NoResponse)

\* Alice asked to assign a policy to Alice and was refused.
C8_Witness ==
    \E h \in Handlers :
        /\ IsAssign(h) /\ pc[h] = "done"
        /\ req[h].self = Alice /\ req[h].identity = Alice
        /\ ret[h] = ErrSelfAssign
        /\ \A e \in Enclaves : DOMAIN assignments[e] = {}

\* C9 as stated: an assign request whose target is the admin identity fails
\* as bad-request, whoever the requester is (the admin lookup succeeding).
C9_Original ==
    \A h \in Handlers :
        (Checked(h) /\ req[h].identity = Admin /\ err[h] # ErrStore) =>
            err[h].code = StatusBadRequest

\* C9, amended: an assign request whose target is the admin identity never
\* reaches enclave.AssignPolicy: it fails as bad-request when another
\* identity asks and the admin lookup succeeds, as forbidden (self-assignment)
\* when the admin asks, and with the lookup's error when Vault.Admin fails;
\* no enclave ever holds an assignment for the admin.
C9_AdminProtection ==
    /\ \A e \in Enclaves : Admin \notin DOMAIN assignments[e]
    /\ \A h \in Handlers :
         (Checked(h) /\ req[h].identity = Admin) =>
            /\ pc[h] # "assignPolicy"
            /\ ~Called(h, "AssignPolicy")
            /\ IF req[h].self = Admin THEN err[h] = ErrSelfAssign
               ELSE err[h] \in {ErrAdminAssign, ErrStore}
            /\ ErrAdminAssign.code = StatusBadRequest
            /\ pc[h] = "done" => (ret[h] = err[h] /\ resp[h] = NoResponse)

\* Alice asked to assign a policy to the admin and was refused as bad-request.
C9_Witness ==
    \E h \in Handlers :
        /\ IsAssign(h) /\ pc[h] = "done"
        /\ req[h].self = Alice /\ req[h].identity = Admin
        /\ ret[h] = ErrAdminAssign

\* ------------------------------------------------------- verification
AccessEvents ==
    {"AssignPolicy", "GetPolicy", "GetPolicy failed", "SetPolicy", "DeletePolicy",
     "ListPolicies", "Iterator.Next", "Iterator.Close", "Iterator.Close failed"}
VerifyEvents == {"VerifyRequest", "VerifyRequest refused"}

\* C10: in every handler enclave.VerifyRequest is called only with the
\* enclave lock held, right after it was acquired, and before any read or
\* mutation of the enclave's policies and identities; a request that
\* VerifyRequest refuses reads, writes, deletes, assigns and iterates nothing.
C10_VerificationOrder ==
    \A h \in Handlers :
        /\ pc[h] = "verify" => HeldEnclaves(h) = {req[h].enclave}
        /\ \A i \in 1..Len(trace[h]) :
             /\ trace[h][i] \in VerifyEvents =>
                   /\ i = 3
                   /\ trace[h][2] \in {"Enclave.Lock", "Enclave.RLock"}
             /\ trace[h][i] \in AccessEvents =>
                   /\ i > 3
                   /\ trace[h][3] = "VerifyRequest"
                   /\ \A j \in 1..i : trace[h][j] # "Enclave.Unlock"
        /\ Called(h, "VerifyRequest refused") =>
             /\ err[h] = ErrNotAllowed
             /\ pc[h] \in {"enclaveUnlock", "vaultRUnlock", "respond", "done"}
             /\ pc[h] = "done" => (ret[h] = ErrNotAllowed /\ resp[h] = NoResponse)

\* A refused request has returned: it locked, verified and unlocked, nothing else.
C10_Witness ==
    \E h \in Handlers :
        /\ pc[h] = "done"
        /\ trace[h] = <<"Vault.RLock", "Enclave.Lock", "VerifyRequest refused",
                        "Enclave.Unlock", "Vault.RUnlock">>
        /\ ret[h] = ErrNotAllowed

\* ------------------------------------------------------ malformed input
HasBody(h) == req[h].op \in {"assign", "write"}
AfterRegion == {"enclaveUnlock", "vaultRUnlock", "respond", "done"}

\* C11 as stated: an assign or write request whose body is malformed fails
\* with the decoder's error, changes no state, and never acquires the
\* enclave lock.
C11_Original ==
    \A h \in Handlers :
        (HasBody(h) /\ err[h] = ErrDecode) =>
            /\ ~Called(h, "AssignPolicy") /\ ~Called(h, "SetPolicy")
            /\ pc[h] = "done" => ret[h] = ErrDecode
            /\ ~Called(h, "Enclave.Lock")

\* C11, amended: the body is decoded inside the enclave write lock, after
\* VerifyRequest accepted the request; a malformed body ends the locked region
\* at once with the decoder's error, which the handler returns with nothing
\* written and no call on the store, both locks having been taken and released.
C11_MalformedBody ==
    \A h \in Handlers :
        /\ pc[h] = "decode" =>
              /\ HasBody(h)
              /\ enclaveLock[req[h].enclave].writer = h
              /\ trace[h] = <<"Vault.RLock", "Enclave.Lock", "VerifyRequest">>
        /\ (HasBody(h) /\ err[h] = ErrDecode) =>
              /\ pc[h] \in AfterRegion
              /\ \A i \in 1..Len(trace[h]) : trace[h][i] \notin AccessEvents
              /\ SubSeq(trace[h], 1, 3) = <<"Vault.RLock", "Enclave.Lock", "VerifyRequest">>
              /\ pc[h] = "done" =>
                    /\ ret[h] = ErrDecode
                    /\ resp[h] = NoResponse
                    /\ trace[h] = <<"Vault.RLock", "Enclave.Lock", "VerifyRequest",
                                    "Enclave.Unlock", "Vault.RUnlock">>

\* A write with a malformed body has returned the decoder's error, having
\* held the enclave lock.
C11_Witness ==
    \E h \in Handlers :
        /\ req[h].op = "write" /\ pc[h] = "done"
        /\ ret[h] = ErrDecode
        /\ Called(h, "Enclave.Lock")
        /\ policies["e2"] = [n \in {} |-> ZeroPolicy]

\* The error of the name or pattern in the path of h's request.
PathError(h) ==
    IF req[h].op = "list" THEN patternFromRequest(req[h].name)
    ELSE nameFromRequest(req[h].name)

\* C12: in every handler a request whose path name or pattern is malformed
\* fails with the validation error before the vault lock or an enclave lock
\* is acquired: it has returned that error, having taken no lock, made no
\* call on the vault or an enclave and written nothing.
C12_MalformedName ==
    \A h \in Handlers :
        (req[h].op \in Ops /\ PathError(h) # Nil) =>
            /\ pc[h] = "done"
            /\ ret[h] = PathError(h)
            /\ ret[h].code = StatusBadRequest
            /\ trace[h] = <<>>
            /\ req[h].enclave = MissingEnclave
            /\ ~Holds(vaultLock, h) /\ HeldEnclaves(h) = {}
            /\ err[h] = Nil /\ resp[h] = NoResponse
            /\ iter[h] = ClosedIterator /\ policy[h] = ZeroPolicy

\* A list with a malformed pattern and a delete with a malformed name have
\* both returned the error, and no lock was ever taken.
C12_Witness ==
    \E h, g \in Handlers :
        /\ req[h].op = "list" /\ req[h].name = BadPattern
        /\ req[g].op = "delete" /\ req[g].name = BadName
        /\ pc[h] = "done" /\ pc[g] = "done"
        /\ ret[h] = ErrName /\ ret[g] = ErrName
        /\ trace[h] = <<>> /\ trace[g] = <<>>

\* ------------------------------------------------------ list completeness
\* The names of the records of h's response, and a list with the pattern *
\* whose locked region has ended with no error.
RecordNames(h) == {Body(h)[i].name : i \in 1..Len(Body(h))}
ListedAll(h) ==
    /\ IsList(h) /\ req[h].name = MatchAll
    /\ pc[h] \in AfterRegion /\ err[h] = Nil

\* C13: when no fetch, write or iterator error occurs, a list with the
\* pattern * emits one success record for every policy name present in the
\* enclave and no other, each name once, carrying that policy's creation
\* time and creator, whatever order the iterator yields the names in.
C13_ListCompleteness ==
    \A h \in Handlers :
        ListedAll(h) =>
            /\ \A i \in 1..Len(Body(h)) : IsSuccessRecord(h, Body(h)[i])
            /\ \A i, j \in 1..Len(Body(h)) : Body(h)[i].name = Body(h)[j].name => i = j
            /\ Len(Body(h)) = Fetched(h)
            /\ Fetched(h) = Count(trace[h], "Iterator.Next")
            /\ pc[h] = "enclaveUnlock" =>
                  LET stored == policies[req[h].enclave]
                  IN /\ RecordNames(h) = DOMAIN stored
                     /\ \A i \in 1..Len(Body(h)) :
                           Body(h)[i] = ListRecord(Body(h)[i].name, stored[Body(h)[i].name])
            /\ pc[h] = "done" => (ret[h] = Nil /\ resp[h].status = StatusOK)

\* A list of * on enclave e1 returned the records of b1 and a1, in the
\* order opposite to the names' order.
C13_Witness ==
    \E h \in Handlers :
        /\ ListedAll(h) /\ pc[h] = "done"
        /\ req[h].enclave = "e1"
        /\ Len(Body(h)) = 2
        /\ Body(h)[1].name = B1 /\ Body(h)[2].name = A1

\* ------------------------------------------------- write, delete, read
\* The successful writes and deletes of policy n of enclave e, as indices of
\* history, and the last of them.
Mutations(e, n) ==
    {i \in 1..Len(history) : history[i].enclave = e /\ history[i].name = n}
Writes(e, n) == {i \in Mutations(e, n) : history[i].op = "SetPolicy"}
Last(S) == CHOOSE i \in S : \A j \in S : j <= i
\* What a read answers for the policy that the write w stored.
ReadOf(w) ==
    [allow |-> w.allow, deny |-> w.deny, created_at |-> w.at, created_by |-> w.by]

\* C14: requests being served one after another, a successful read of policy
\* p that follows successful writes of p in the same enclave returns exactly
\* the last write's allow and deny rules, with created_at the time of that
\* write and created_by its verified requester; the time of an earlier write
\* is a different one, and nothing of the earlier version is in the answer.
C14_WriteReplaces ==
    \A h \in Handlers :
        (req[h].op = "read" /\ pc[h] = "done" /\ ret[h] = Nil) =>
            LET ms == Mutations(req[h].enclave, req[h].name)
            IN ms # {} =>
                 LET w == history[Last(ms)]
                 IN /\ w.op = "SetPolicy"
                    /\ resp[h].status = StatusOK
                    /\ Body(h) = <<ReadOf(w)>>
                    /\ w.by \in Requesters
                    /\ \A i \in Writes(req[h].enclave, req[h].name) :
                          i # Last(ms) => history[i].at < w.at

\* Two writes of the same policy with different rules, then a read that
\* returned the rules of the second.
C14_Witness ==
    \E h \in Handlers :
        /\ req[h].op = "read" /\ pc[h] = "done" /\ ret[h] = Nil
        /\ Len(history) = 2
        /\ Writes(req[h].enclave, req[h].name) = {1, 2}
        /\ history[1].allow # history[2].allow
        /\ history[1].deny # history[2].deny
        /\ Body(h) = <<ReadOf(history[2])>>

\* The policy that the write w asked the enclave to store.
PolicyOf(w) == Policy(w.allow, w.deny, w.at, w.by)
IsWrite(h) == req[h].op = "write"

\* C15: concurrent writes to the same policy name of the same enclave are
\* serialized: while one is between acquiring the enclave lock and releasing
\* it (its SetPolicy step included) no other is, and whenever none of them is
\* inside a SetPolicy step the stored policy is exactly what the write whose
\* SetPolicy completed last asked for, never a mixture of two writes.
C15_WritesSerialized ==
    /\ \A h, g \in Handlers :
         (h # g /\ IsWrite(h) /\ IsWrite(g) /\ req[h].enclave = req[g].enclave) =>
            ~(InEnclaveRegion(h) /\ InEnclaveRegion(g))
    /\ \A e \in Enclaves : \A n \in PolicyNames :
         /\ Writes(e, n) # {} /\ Last(Mutations(e, n)) \in Writes(e, n) =>
               /\ n \in DOMAIN policies[e]
               /\ policies[e][n] = PolicyOf(history[Last(Writes(e, n))])
         /\ \A i, j \in Writes(e, n) : i < j => history[i].at < history[j].at

\* Two handlers wrote the same policy of the same enclave with different
\* rules while both were running: the first to write has not answered yet,
\* the second has returned, and the policy stored is the second's.
C15_Witness ==
    \E h, g \in Handlers : \E n \in PolicyNames :
        /\ h # g /\ IsWrite(h) /\ IsWrite(g)
        /\ req[h].name = n /\ req[g].name = n
        /\ req[h].enclave = "e1" /\ req[g].enclave = "e1"
        /\ pc[h] = "respond" /\ pc[g] = "done" /\ ret[g] = Nil
        /\ Len(history) = 2
        /\ history[1].handler = h /\ history[2].handler = g
        /\ history[1].allow # history[2].allow
        /\ policies["e1"][n] = PolicyOf(history[2])

\* ---------------------------------------------------- enclave independence
\* The handlers other than g that hold the lock of the enclave g targets.
HoldersOfTarget(g) ==
    {h \in Handlers \ {g} : req[g].enclave \in Enclaves /\ Holds(enclaveLock[req[g].enclave], h)}

\* C16: a handler that holds the lock of enclave E1 never keeps a handler
\* that targets another enclave E2 from acquiring E2's lock and going on to
\* its end: a running handler can always take its next step, except while it
\* waits for the lock of its own enclave and another handler holds that very
\* lock; the vault lock is only ever held for reading, by any number of
\* handlers, and never makes a handler wait.
C16_EnclaveIndependence ==
    /\ vaultLock.writer = 0
    /\ \A g \in Handlers :
         /\ pc[g] = "vaultRLock" => ENABLED VaultRLock(g)
         /\ (pc[g] = "enclaveLock" /\ HoldersOfTarget(g) = {}) => ENABLED EnclaveLock(g)
         /\ Running(g) /\ ~ENABLED Step(g) =>
               /\ pc[g] = "enclaveLock"
               /\ \E h \in HoldersOfTarget(g) :
                     /\ req[h].enclave = req[g].enclave
                     /\ InEnclaveRegion(h)
                     /\ "write" \in {EnclaveLockMode(req[h].op), EnclaveLockMode(req[g].op)}

\* An assign holds the write lock of e1 and is about to call AssignPolicy;
\* an assign to e2 holds the vault read lock as well and can take e2's lock.
C16_Witness ==
    \E h, g \in Handlers :
        /\ h # g
        /\ IsAssign(h) /\ pc[h] = "assignPolicy" /\ req[h].enclave = "e1"
        /\ enclaveLock["e1"].writer = h
        /\ IsAssign(g) /\ pc[g] = "enclaveLock" /\ req[g].enclave = "e2"
        /\ vaultLock.readers = {h, g}
        /\ ENABLED EnclaveLock(g)

\* ------------------------------------------------------------- delete
\* Whether enclave e held policy n just before the i-th entry of history.
PresentBefore(i, e, n) ==
    LET earlier == {j \in Mutations(e, n) : j < i}
    IN IF earlier = {} THEN n \in DOMAIN InitialPolicies(e)
       ELSE history[Last(earlier)].op = "SetPolicy"

\* C17: requests being served one after another, a delete of a name that
\* the enclave does not hold fails with not-found and never answers with the
\* success status (a delete succeeds only for a name that was present, and
\* then removes it); and a describe of p whose last write or delete was a
\* successful delete fails with not-found.
C17_DeleteReportsAbsence ==
    /\ \A i \in 1..Len(history) :
         history[i].op = "DeletePolicy" =>
            PresentBefore(i, history[i].enclave, history[i].name)
    /\ \A h \in Handlers :
         (req[h].op = "delete" /\ Called(h, "DeletePolicy")) =>
            /\ err[h] \in {Nil, ErrPolicyNotFound, ErrStore}
            /\ err[h] = Nil =>
                  /\ history # <<>>
                  /\ history[Len(history)] = Deleted(h, req[h].enclave, req[h].name)
                  /\ req[h].name \notin DOMAIN policies[req[h].enclave]
            /\ (err[h] # Nil /\ req[h].name \notin DOMAIN policies[req[h].enclave]) =>
                  err[h] = ErrPolicyNotFound
            /\ pc[h] = "done" =>
                  IF err[h] = Nil THEN ret[h] = Nil /\ resp[h].status = StatusOK
                  ELSE ret[h] = err[h] /\ resp[h] = NoResponse
    /\ \A h \in Handlers :
         (req[h].op = "describe" /\ Called(h, "GetPolicy")) =>
            LET ms == Mutations(req[h].enclave, req[h].name)
            IN (ms # {} /\ history[Last(ms)].op = "DeletePolicy") =>
                  /\ err[h] = ErrPolicyNotFound
                  /\ pc[h] = "done" => (ret[h] = ErrPolicyNotFound /\ resp[h] = NoResponse)

\* A policy of e1 was deleted, and then a describe of it was refused with
\* not-found.
C17_Witness ==
    \E h \in Handlers : \E n \in PolicyNames :
        /\ req[h].op = "describe" /\ pc[h] = "done"
        /\ req[h].name = n /\ req[h].enclave = "e1"
        /\ ret[h] = ErrPolicyNotFound
        /\ history = <<Deleted(h, "e1", n)>>
        /\ n \notin DOMAIN policies["e1"]

\* ------------------------------------------------- assign's check order
\* The handler is at, or has made, the call of enclave.AssignPolicy.
ReachedAssign(h) == pc[h] = "assignPolicy" \/ Called(h, "AssignPolicy")

\* C18: assign evaluates its preconditions in the order name syntax of the
\* target, unknown target (bad request), target equal to the requester
\* (forbidden), target equal to the vault admin (bad request), and the first
\* that fails is the failure reported; the admin asking for the admin
\* identity is refused as self-assignment (forbidden); enclave.AssignPolicy
\* is called only when every check passed.
C18_AssignOrder ==
    \A h \in Handlers :
        Checked(h) =>
          LET id == req[h].identity
              self == req[h].self
              wellFormed == \A i \in 1..Len(id) : id[i] \in NameChars
              known == id # IdentityUnknown
          IN /\ ~wellFormed =>
                   err[h] = ErrName /\ ~ReachedAssign(h)
             /\ (wellFormed /\ ~known) =>
                   /\ err[h] = ErrIdentityUnknown /\ err[h].code = StatusBadRequest
                   /\ ~ReachedAssign(h)
             /\ (wellFormed /\ known) => self \in Requesters
             /\ (wellFormed /\ known /\ self = id) =>
                   /\ err[h] = ErrSelfAssign /\ err[h].code = StatusForbidden
                   /\ ~ReachedAssign(h)
             /\ (wellFormed /\ known /\ self # id /\ id = Admin) =>
                   /\ err[h] \in {ErrAdminAssign, ErrStore}
                   /\ ErrAdminAssign.code = StatusBadRequest
                   /\ ~ReachedAssign(h)
             /\ (wellFormed /\ known /\ self # id /\ id # Admin /\ ~ReachedAssign(h)) =>
                   err[h] = ErrStore
             /\ ReachedAssign(h) =>
                   wellFormed /\ known /\ self # id /\ id # Admin
             /\ (pc[h] = "done" /\ ~ReachedAssign(h)) =>
                   (ret[h] = err[h] /\ ret[h] # Nil /\ resp[h] = NoResponse)

\* The admin asked to assign a policy to the admin identity and was refused
\* as self-assignment.
C18_Witness ==
    \E h \in Handlers :
        /\ IsAssign(h) /\ pc[h] = "done"
        /\ req[h].self = Admin /\ req[h].identity = Admin
        /\ ret[h] = ErrSelfAssign /\ ret[h].code = StatusForbidden
        /\ ~Called(h, "AssignPolicy")

\* ------------------------------------------------ the iterator's close
CloseFailed(h) == IsList(h) /\ Called(h, "Iterator.Close failed")

\* C19: a failure of iterator.Close at the end of the loop takes the same
\* two-way branch as a failed fetch: when a matching name has committed the
\* header the response keeps the success status and ends with one error
\* record after the records already written, and the handler returns no
\* error; when nothing has been written the failure is returned as the
\* handler's error and nothing is written.
C19_CloseFailure ==
    \A h \in Handlers :
        CloseFailed(h) =>
            /\ err[h] = ErrStore
            /\ pc[h] \in AfterRegion
            /\ ~FetchFailed(h)
            /\ hasWritten[h] <=> Fetched(h) >= 1
            /\ pc[h] # "done" =>
                  /\ Len(Body(h)) = Fetched(h)
                  /\ resp[h].commits = IF hasWritten[h] THEN 1 ELSE 0
            /\ pc[h] = "done" =>
                  IF hasWritten[h]
                  THEN /\ ret[h] = Nil
                       /\ resp[h].status = StatusOK /\ resp[h].commits = 1
                       /\ Len(Body(h)) = Fetched(h) + 1
                       /\ \A i \in 1..Fetched(h) : IsSuccessRecord(h, Body(h)[i])
                       /\ Body(h)[Len(Body(h))] = ErrorRecord(ErrStore)
                  ELSE /\ ret[h] = ErrStore
                       /\ resp[h] = NoResponse

\* Two lists whose iterator failed to close: one had written a record and
\* ended with status 200 and an error record, the other had written nothing
\* and returned the error.
C19_Witness ==
    \E h, g \in Handlers :
        /\ CloseFailed(h) /\ CloseFailed(g)
        /\ pc[h] = "done" /\ pc[g] = "done"
        /\ hasWritten[h] /\ ret[h] = Nil /\ resp[h].status = StatusOK
        /\ Len(Body(h)) = 2 /\ Body(h)[2] = ErrorRecord(ErrStore)
        /\ ~hasWritten[g] /\ ret[g] = ErrStore /\ resp[g] = NoResponse

\* ------------------------------------------------------- single commit
\* The header of a list, in every state: written at most once; written once
\* and with the success status when the handler returned no error; not
\* written when the handler returned an error.
SingleCommit(h) ==
    /\ resp[h].commits <= 1
    /\ hasWritten[h] => (resp[h].commits = 1 /\ resp[h].status = StatusOK)
    /\ (pc[h] # "done" /\ ~hasWritten[h]) => resp[h] = NoResponse
    /\ pc[h] = "done" =>
          IF ret[h] = Nil
          THEN resp[h].commits = 1 /\ resp[h].status = StatusOK
          ELSE ~hasWritten[h] /\ resp[h] = NoResponse
\* While a request is being served the flag does not go back, and the
\* header, once written, is not written again.
FlagOneWay(h) ==
    pc[h] # "done" =>
        /\ hasWritten[h] => hasWritten'[h]
        /\ resp[h].commits = 1 => (resp'[h].commits = 1 /\ resp'[h].status = StatusOK)

\* C20: the flag of a list request only goes from not-committed to
\* committed, never back; on every path through the list handler the
\* success status header is written at most once; where the handler returns
\* no error it has been written exactly once, at the first match or at the
\* end for an empty result; where the handler returns an error it has not
\* been written at all.
C20_SingleCommit ==
    /\ [](\A h \in Handlers : IsList(h) => SingleCommit(h))
    /\ [][\A h \in Handlers : IsList(h) => FlagOneWay(h)]_vars

\* A list wrote the records of two matching policies under a header that
\* was committed once, at the first of them.
C20_Witness ==
    \E h \in Handlers :
        /\ IsList(h) /\ pc[h] = "done"
        /\ hasWritten[h] /\ ret[h] = Nil /\ err[h] = Nil
        /\ Len(Body(h)) = 2
        /\ resp[h].commits = 1 /\ resp[h].status = StatusOK
====
